---- MODULE Spec2Model ----
(***************************************************************************)
(* moppi: the dependency graph engine of the package installer.            *)
(*                                                                         *)
(* The state is the in-memory config of one Moppi object (the direct,      *)
(* optional and indirect collections of Dependency nodes), the persisted   *)
(* pyproject.toml, the install directory and the PyPI registry.  Every     *)
(* command (add, update, remove, apply) is one action that runs the whole  *)
(* handler, its recursion and its trailing save included.                  *)
(*                                                                         *)
(* Modelling decisions:                                                    *)
(*  - a package name is a string; Lower is str.lower() on the names used;  *)
(*  - a "name==1" string is the tuple <<name, operator, version>>; a       *)
(*    composite "x :: p1 :: p2" string is a record holding the head and    *)
(*    the parents; a TOML list is the set of its entries (the order of a   *)
(*    list written from a Python set is the set's iteration order);        *)
(*  - a member of needed_by is a reference to the parent Dependency; only  *)
(*    its name, operator and version are ever read, so it is kept as that  *)
(*    triple;                                                              *)
(*  - the iteration order of a Python set is an input of the command.      *)
(***************************************************************************)
EXTENDS Integers, Sequences, FiniteSets, TLC

\* Highest version the registry publishes for one package.
MaxVersion == 2

\* Length of a run: commands, releases and process starts.
MaxSteps == 3

\* Registry keys (lower-cased names) and the names the registry reports.
Keys == {"a", "b", "c", "d"}

Canonical == [k \in Keys |->
    CASE k = "a" -> "A" [] k = "b" -> "B" [] k = "c" -> "C" [] OTHER -> "d"]

\* Packages that get a new release while the model runs.
Released == {"c"}

\* Names a user can type on the command line.
TypedNames == {"A", "a", "B", "C", "d"}

\* str.lower()
Lower(s) ==
    CASE s = "A" -> "a" [] s = "B" -> "b" [] s = "C" -> "c" [] s = "D" -> "d"
      [] OTHER -> s

\* optional = None: no group
NoGroup == ""

\* Optional groups a package can be added to.
Groups == {"dev"}

equal == "=="

upper == ">="

lower == "<="

\* Dependency.sha256 class default
DefaultSha == <<"hashqwe", 0>>

\* A requires_dist entry: name, constraint, and whether it carries a ';' marker.
Req(n, op, v, m) == [name |-> n, operator |-> op, version |-> v, marker |-> m]

\* The registries the model is run against (info.requires_dist per package).
\*  1: diamond A->C, B->c and chain C->d
\*  2: mutual requirement A->B->A, a marker-gated entry B->C, d->A
\*  3: two requirements in declared order, sharing d: A->[B, C], B->d, C->d
Registries == <<
    [a |-> <<Req("C", upper, 2, FALSE)>>,
     b |-> <<Req("c", equal, 0, FALSE)>>,
     c |-> <<Req("d", equal, 1, FALSE)>>,
     d |-> <<>>],
    [a |-> <<Req("B", equal, 0, FALSE)>>,
     b |-> <<Req("A", lower, 1, FALSE), Req("C", upper, 1, TRUE)>>,
     c |-> <<>>,
     d |-> <<Req("A", equal, 0, FALSE)>>],
    [a |-> <<Req("B", equal, 0, FALSE), Req("C", equal, 0, FALSE)>>,
     b |-> <<Req("d", upper, 1, FALSE)>>,
     c |-> <<Req("d", equal, 0, FALSE)>>,
     d |-> <<>>] >>

VARIABLES
    config,         \* Moppi.config: dependencies, optional_dependencies, indirect_dependencies
    config_file,    \* the saved pyproject.toml sections
    site_packages,  \* artifacts in the install directory (sys.path[-1])
    registry,       \* which of Registries PyPI serves
    pypi,           \* current version of each package on PyPI
    crashed,        \* an exception left the command; the process is gone
    last,           \* the last command and how it ended
    steps,          \* commands, releases and process starts so far
    peer            \* a second moppi process working on the same pyproject.toml

vars == <<config, config_file, site_packages, registry, pypi, crashed, last, steps, peer>>

----------------------------------------------------------------------------
\* Dependency

\* Dependency.__init__ and the class defaults
Dependency(name) ==
    [name |-> name, version |-> 0, operator |-> equal,
     sha256 |-> DefaultSha, needed_by |-> {}]

\* Dependency.from_string on a requirement entry
from_string(req) ==
    [Dependency(req.name) EXCEPT !.version = req.version, !.operator = req.operator]

\* Dependency.as_string
as_string(dep) == <<dep.name, dep.operator, dep.version>>

\* Dependency.apply_pypi_info
apply_pypi_info(dep, info) ==
    [dep EXCEPT !.name = info.name, !.version = info.version,
                !.operator = equal, !.sha256 = info.sha256]

\* Dependency.__eq__
dep_eq(x, y) == Lower(x.name) = Lower(y.name)

\* set.add under Dependency.__eq__
set_add(S, dep) == IF \E e \in S : dep_eq(e, dep) THEN S ELSE S \cup {dep}

----------------------------------------------------------------------------
\* Config

EmptyConfig ==
    [dependencies |-> {},
     optional_dependencies |-> [g \in Groups |-> {}],
     indirect_dependencies |-> {}]

\* every Dependency held by the config
nodes(cfg) ==
    cfg.dependencies \cup (UNION {cfg.optional_dependencies[g] : g \in Groups})
        \cup cfg.indirect_dependencies

\* Config.all
all(cfg) == {Lower(dep.name) : dep \in nodes(cfg)}

EmptyFile ==
    [written |-> FALSE,
     dependencies |-> {},
     optional_dependencies |-> [g \in Groups |-> {}],
     indirect_dependencies |-> {},
     dependency_lock |-> {}]

\* Config.save: the sections written for the nodes of the config
save(cfg) ==
    [written |-> TRUE,
     dependencies |-> {as_string(dep) : dep \in cfg.dependencies},
     optional_dependencies |->
        [g \in Groups |-> {as_string(dep) : dep \in cfg.optional_dependencies[g]}],
     indirect_dependencies |->
        {[head |-> as_string(dep), needed_by |-> dep.needed_by]
            : dep \in cfg.indirect_dependencies},
     dependency_lock |->
        {[head |-> as_string(dep), needed_by |-> dep.needed_by, sha256 |-> dep.sha256]
            : dep \in nodes(cfg)}]

----------------------------------------------------------------------------
\* Moppi: the collaborators

\* What a command can hit: no failure, or the metadata fetch or the download
\* of one package raising.
NoFail == <<"none", "">>

Failures == {NoFail, <<"info", "c">>, <<"download", "d">>}

\* Moppi._get_package_info: the registry answers for the lower-cased name
get_package_info(package) ==
    LET key == Lower(package) IN
    [name |-> Canonical[key], version |-> pypi[key],
     requires_dist |-> Registries[registry][key],
     sha256 |-> <<key, pypi[key]>>]

\* the name a file of the install directory is matched under:
\* file.name.split("-")[0].split(".")[0].lower()
file_key(file) == Lower(file)

----------------------------------------------------------------------------
\* Moppi._install
\* st: [config, files, log, ok]; ok = FALSE once an exception is raised,
\* which unwinds every enclosing call.

\* the optional group is looked at before needed_by
install_store_grouped(cfg, dependency, optional) ==
    IF optional # NoGroup
    THEN [cfg EXCEPT !.optional_dependencies[optional] = set_add(@, dependency)]
    ELSE IF dependency.needed_by # {}
    THEN [cfg EXCEPT !.indirect_dependencies = set_add(@, dependency)]
    ELSE [cfg EXCEPT !.dependencies = set_add(@, dependency)]

\* every fetched dependency goes to the direct list
install_store_direct(cfg, dependency, optional) ==
    [cfg EXCEPT !.dependencies = set_add(@, dependency)]

\* lines 190-195: the collection the fetched dependency is stored in
install_store(cfg, dependency, optional) ==
    IF dependency.needed_by # {}
    THEN [cfg EXCEPT !.indirect_dependencies = set_add(@, dependency)]
    ELSE IF optional # NoGroup
    THEN [cfg EXCEPT !.optional_dependencies[optional] = set_add(@, dependency)]
    ELSE [cfg EXCEPT !.dependencies = set_add(@, dependency)]

\* the requirer is not recorded
new_dependency_unparented(req, dependency) == from_string(req)

\* lines 204-205: the Dependency built for one requirement of `dependency`
new_dependency(req, dependency) ==
    [from_string(req) EXCEPT !.needed_by = @ \cup {as_string(dependency)}]

\* line 207: the requirement is resolved only when its name is not in config.all
unresolved(cfg, dep) == Lower(dep.name) \notin all(cfg)

\* no entry is skipped
skipped_never(req) == FALSE

\* line 199: an entry holding a ';' marker is skipped
skipped(req) == req.marker

RECURSIVE install(_, _, _, _)
RECURSIVE install_requires(_, _, _, _, _, _)

install(st, dependency, optional, fail) ==
    LET key == Lower(dependency.name)
        info == get_package_info(dependency.name)
        dep == apply_pypi_info(dependency, info)
    IN  IF fail = <<"info", key>>
        THEN [st EXCEPT !.ok = FALSE]
        ELSE IF fail = <<"download", key>>
        THEN [st EXCEPT !.log = Append(@, <<"info", key>>), !.ok = FALSE]
        ELSE install_requires(
                [st EXCEPT !.log = @ \o << <<"info", key>>, <<"download", key>> >>,
                           !.files = @ \cup {info.name},
                           !.config = install_store(@, dep, optional)],
                dep, info.requires_dist, 1, optional, fail)

\* a requirement whose package is in the graph overwrites the constraint
\* stored for it
install_requires_revisit(st, dependency, requires_dist, i, optional, fail) ==
    IF ~st.ok \/ i > Len(requires_dist)
    THEN st
    ELSE IF skipped(requires_dist[i])
    THEN install_requires(st, dependency, requires_dist, i + 1, optional, fail)
    ELSE LET nd == new_dependency(requires_dist[i], dependency)
             again(S) == {IF dep_eq(dep, nd)
                          THEN [dep EXCEPT !.operator = nd.operator, !.version = nd.version]
                          ELSE dep : dep \in S}
         IN  IF unresolved(st.config, nd)
             THEN install_requires(install(st, nd, optional, fail),
                                   dependency, requires_dist, i + 1, optional, fail)
             ELSE install_requires(
                    [st EXCEPT !.config =
                        [dependencies |-> again(@.dependencies),
                         optional_dependencies |->
                            [g \in Groups |-> again(@.optional_dependencies[g])],
                         indirect_dependencies |-> again(@.indirect_dependencies)]],
                    dependency, requires_dist, i + 1, optional, fail)

\* the list is walked from its last entry to its first
install_requires_reversed(st, dependency, requires_dist, i, optional, fail) ==
    IF ~st.ok \/ i > Len(requires_dist)
    THEN st
    ELSE LET req == requires_dist[Len(requires_dist) - i + 1] IN
         IF skipped(req)
         THEN install_requires(st, dependency, requires_dist, i + 1, optional, fail)
         ELSE LET nd == new_dependency(req, dependency) IN
              IF unresolved(st.config, nd)
              THEN install_requires(install(st, nd, optional, fail),
                                    dependency, requires_dist, i + 1, optional, fail)
              ELSE install_requires(st, dependency, requires_dist, i + 1, optional, fail)

\* lines 197-209: the loop over requires_dist, from entry i on
install_requires(st, dependency, requires_dist, i, optional, fail) ==
    IF ~st.ok \/ i > Len(requires_dist)
    THEN st
    ELSE IF skipped(requires_dist[i])
    THEN install_requires(st, dependency, requires_dist, i + 1, optional, fail)
    ELSE LET nd == new_dependency(requires_dist[i], dependency) IN
         IF unresolved(st.config, nd)
         THEN install_requires(install(st, nd, optional, fail),
                               dependency, requires_dist, i + 1, optional, fail)
         ELSE install_requires(st, dependency, requires_dist, i + 1, optional, fail)

----------------------------------------------------------------------------
\* Moppi._cleanup_indirect
\* The loop runs over a copy of indirect_dependencies while the recursion
\* removes members of the set itself and rewrites needed_by on the shared
\* objects, so the state is the objects (by lower-cased name), the names
\* still in the set, and the list of names returned so far.

\* the copy of the set, in iteration order
snapshot(members, order) == SelectSeq(order, LAMBDA k : k \in members)

\* the requirer is left in needed_by
prune_nothing(needed_by, package) == needed_by

\* lines 215-217
prune(needed_by, package) == {dep \in needed_by : Lower(dep[1]) # package}

RECURSIVE cleanup_indirect(_, _, _)
RECURSIVE cleanup_loop(_, _, _, _)

cleanup_indirect(st, package, order) ==
    cleanup_loop(st, package, snapshot(st.members, order), order)

\* a node left without requirers is dropped, its own dependencies are not
\* looked at
cleanup_loop_flat(st, package, todo, order) ==
    IF todo = <<>>
    THEN st
    ELSE LET k == Head(todo)
             nb == prune(st.objs[k].needed_by, package)
             st1 == [st EXCEPT !.objs[k].needed_by = nb]
         IN  IF nb = {}
             THEN cleanup_loop(
                    [st1 EXCEPT !.packages = Append(@, k), !.members = @ \ {k}],
                    package, Tail(todo), order)
             ELSE cleanup_loop(st1, package, Tail(todo), order)

cleanup_loop(st, package, todo, order) ==
    IF todo = <<>>
    THEN st
    ELSE LET k == Head(todo)
             nb == prune(st.objs[k].needed_by, package)
             st1 == [st EXCEPT !.objs[k].needed_by = nb]
         IN  IF nb = {}
             THEN cleanup_loop(
                    cleanup_indirect(
                        [st1 EXCEPT !.packages = Append(@, k),
                                    !.members = @ \ {k}],
                        k, order),
                    package, Tail(todo), order)
             ELSE cleanup_loop(st1, package, Tail(todo), order)

\* the indirect collection as objects by lower-cased name
objects_of(S) == [k \in {Lower(dep.name) : dep \in S} |->
                    CHOOSE dep \in S : Lower(dep.name) = k]

\* The iteration orders of a set the commands are run under.
Orders == {<<"a", "b", "c", "d">>, <<"d", "c", "b", "a">>, <<"c", "a", "d", "b">>}

----------------------------------------------------------------------------
\* Config.__init__: the config read back from the file.  Sections are read
\* in the order direct, optional, indirect, dependency-lock, and an entry
\* whose name was read already is skipped.

\* Dependency.from_string on a saved "name==version" string
parse(string) ==
    [Dependency(string[1]) EXCEPT !.operator = string[2], !.version = string[3]]

\* the parents of a composite entry are not read
from_composite_head(entry) == parse(entry.head)

\* Dependency.from_composite_string
from_composite_string(entry) ==
    [parse(entry.head) EXCEPT !.needed_by = entry.needed_by]

\* Dependency.from_lock_string
from_lock_string(entry) ==
    [parse(entry.head) EXCEPT !.needed_by = entry.needed_by, !.sha256 = entry.sha256]

\* entries of S whose name is not among the lower-cased names seen
unseen(S, seen) == {dep \in S : Lower(dep.name) \notin seen}

load(file) ==
    LET direct == {parse(s) : s \in file.dependencies}
        seen1 == {Lower(dep.name) : dep \in direct}
        opt == [g \in Groups |->
                  unseen({parse(s) : s \in file.optional_dependencies[g]}, seen1)]
        seen2 == seen1 \cup {Lower(dep.name) : dep \in UNION {opt[g] : g \in Groups}}
        indirect == unseen({from_composite_string(e) : e \in file.indirect_dependencies},
                           seen2)
        seen3 == seen2 \cup {Lower(dep.name) : dep \in indirect}
        locked == unseen({from_lock_string(e) : e \in file.dependency_lock}, seen3)
    IN  [dependencies |-> direct \cup {dep \in locked : dep.needed_by = {}},
         optional_dependencies |-> opt,
         indirect_dependencies |-> indirect \cup {dep \in locked : dep.needed_by # {}}]

----------------------------------------------------------------------------
\* The commands, as functions of m = [config, file, files] giving the
\* outcome: the new config, file and directory and what the command did.

Range(seq) == {seq[i] : i \in DOMAIN seq}

outcome(cfg, file, files, result, log, removed, writes) ==
    [config |-> cfg, file |-> file, files |-> files, result |-> result,
     log |-> log, removed |-> removed, writes |-> writes]

\* the typed name is looked up as typed
add_installed_exact(cfg, package) == package \in all(cfg)

\* only the direct and optional names are looked up
add_installed_roots(cfg, package) ==
    Lower(package) \in {Lower(dep.name) : dep \in cfg.dependencies
                            \cup UNION {cfg.optional_dependencies[g] : g \in Groups}}

\* line 46
add_installed(cfg, package) == Lower(package) \in all(cfg)

\* the check is left out
not_installed_never(cfg, package) == FALSE

\* lines 56 and 68, on the lower-cased name
not_installed(cfg, package) == package \notin all(cfg)

\* the nodes inserted before the failure are taken out again
add_finish_rolled_back(m, st) ==
    IF st.ok
    THEN outcome(st.config, save(st.config), st.files, "ok", st.log, <<>>, 1)
    ELSE outcome(m.config, m.file, st.files, "failed", st.log, <<>>, 0)

\* save keeps the entries the file holds next to the process's own
add_finish_merged(m, st) ==
    IF st.ok
    THEN LET own == save(st.config) IN
         outcome(st.config,
                 [dependencies |-> own.dependencies \cup m.file.dependencies,
                  optional_dependencies |->
                     [g \in Groups |-> own.optional_dependencies[g]
                                          \cup m.file.optional_dependencies[g]],
                  indirect_dependencies |->
                     own.indirect_dependencies \cup m.file.indirect_dependencies,
                  written |-> TRUE,
                  dependency_lock |-> own.dependency_lock \cup m.file.dependency_lock],
                 st.files, "ok", st.log, <<>>, 1)
    ELSE outcome(st.config, m.file, st.files, "failed", st.log, <<>>, 0)

\* lines 49-50: the outcome of add once _install returned or raised; the
\* save is reached only when _install returned
add_finish(m, st) ==
    IF st.ok
    THEN outcome(st.config, save(st.config), st.files, "ok", st.log, <<>>, 1)
    ELSE outcome(st.config, m.file, st.files, "failed", st.log, <<>>, 0)

\* Moppi.add
add(m, package, optional, fail) ==
    IF add_installed(m.config, package)
    THEN outcome(m.config, m.file, m.files, "already", <<>>, <<>>, 0)
    ELSE add_finish(m, install([config |-> m.config, files |-> m.files,
                                log |-> <<>>, ok |-> TRUE],
                               Dependency(package), optional, fail))

\* the stored name is compared as it is
drop_root_exact(S, package) == {dep \in S : dep.name # package}

\* lines 73-75 and 78-83: the name leaves the direct and optional collections
drop_root(S, package) == {dep \in S : Lower(dep.name) # package}

\* lines 91-100: the files of the install directory that are deleted
delete_files(files, packages) == {f \in files : file_key(f) \notin Range(packages)}

\* Moppi.remove (indirect = False)
remove(m, name, order) ==
    LET package == Lower(name) IN
    IF not_installed(m.config, package)
    THEN outcome(m.config, m.file, m.files, "notinstalled", <<>>, <<>>, 0)
    ELSE LET cl == cleanup_indirect(
                     [objs |-> objects_of(m.config.indirect_dependencies),
                      members |-> {Lower(dep.name) : dep \in m.config.indirect_dependencies},
                      packages |-> <<>>],
                     package, order)
             packages == <<package>> \o cl.packages
             cfg == [dependencies |-> drop_root(m.config.dependencies, package),
                     optional_dependencies |->
                        [g \in Groups |-> drop_root(m.config.optional_dependencies[g], package)],
                     indirect_dependencies |-> {cl.objs[k] : k \in cl.members}]
         IN  outcome(cfg, save(cfg), delete_files(m.files, packages), "ok",
                     <<>>, packages, 1)

\* the file is left as remove saved it
update_finish_unsaved(r, st) ==
    outcome(st.config, r.file, st.files, IF st.ok THEN "ok" ELSE "failed", st.log,
            r.removed, r.writes)

\* the graph is saved although the re-install failed
update_finish_saved(r, st) ==
    outcome(st.config, save(st.config), st.files,
            IF st.ok THEN "ok" ELSE "failed", st.log, r.removed, r.writes + 1)

\* lines 61-62: the outcome of update once remove returned r and _install st
update_finish(r, st) ==
    IF st.ok
    THEN outcome(st.config, save(st.config), st.files, "ok", st.log,
                 r.removed, r.writes + 1)
    ELSE outcome(st.config, r.file, st.files, "failed", st.log,
                 r.removed, r.writes)

\* Moppi.update
update(m, name, order, fail) ==
    LET package == Lower(name) IN
    IF not_installed(m.config, package)
    THEN outcome(m.config, m.file, m.files, "notinstalled", <<>>, <<>>, 0)
    ELSE LET r == remove(m, package, order)
             st == install([config |-> r.config, files |-> r.files,
                            log |-> <<>>, ok |-> TRUE],
                           Dependency(package), NoGroup, fail)
         IN  update_finish(r, st)

\* line 118: package.replace("-", "_"); no name of the model holds a hyphen
underscored(package) == package

\* lines 113-120: some file of the install directory matches the package
on_disk(files, package) == \E f \in files : file_key(f) = underscored(package)

\* lines 107-110: the names apply considers
apply_packages(cfg, optional) ==
    IF optional = NoGroup
    THEN all(cfg)
    ELSE {dep.name : dep \in cfg.optional_dependencies[optional]}

RECURSIVE apply_loop(_, _, _)
\* lines 112-125, over the packages in iteration order
apply_loop(st, todo, fail) ==
    IF ~st.ok \/ todo = <<>>
    THEN st
    ELSE LET package == Head(todo)
             key == Lower(package)
             info == get_package_info(package)
         IN  IF on_disk(st.files, package)
             THEN apply_loop(st, Tail(todo), fail)
             ELSE IF fail = <<"info", key>>
             THEN [st EXCEPT !.ok = FALSE]
             ELSE IF fail = <<"download", key>>
             THEN [st EXCEPT !.log = Append(@, <<"info", key>>), !.ok = FALSE]
             ELSE apply_loop(
                    [st EXCEPT !.log = @ \o << <<"info", key>>, <<"download", key>> >>,
                               !.files = @ \cup {info.name}],
                    Tail(todo), fail)

\* Moppi.apply
apply(m, optional, order, fail) ==
    LET packages == apply_packages(m.config, optional)
        keys == snapshot({Lower(p) : p \in packages}, order)
        todo == [i \in DOMAIN keys |-> CHOOSE p \in packages : Lower(p) = keys[i]]
        st == apply_loop([config |-> m.config, files |-> m.files,
                          log |-> <<>>, ok |-> TRUE], todo, fail)
    IN  outcome(m.config, m.file, st.files,
                IF st.ok THEN "ok" ELSE "failed", st.log, <<>>, 0)

----------------------------------------------------------------------------
\* The state machine

\* the machine the commands work on
machine == [config |-> config, file |-> config_file, files |-> site_packages]

\* the command line and what the command printed: how it ended and the
\* packages of its "Removing [...]" line
command(op, package, optional, r) ==
    [op |-> op, package |-> package, optional |-> optional, result |-> r.result,
     removed |-> Range(r.removed)]

\* no command has run in this process yet
started == [op |-> "start", package |-> "", optional |-> NoGroup, result |-> "ok",
            removed |-> {}]

\* no second process runs
NoPeer == [pc |-> "none", config |-> EmptyConfig, last |-> started, saver |-> "none"]

\* Config.save line 104-105 opens the file for writing and dumps its own
\* config_data: the process whose save ran last is the one the file is from
wrote(p, who, r) ==
    IF p.pc = "none" \/ r.writes = 0 THEN p ELSE [p EXCEPT !.saver = who]

\* the command's outcome becomes the state; an exception ends the process
finish(op, package, optional, r) ==
    /\ config' = r.config
    /\ config_file' = r.file
    /\ site_packages' = r.files
    /\ crashed' = (r.result = "failed")
    /\ last' = command(op, package, optional, r)
    /\ steps < MaxSteps
    /\ steps' = steps + 1
    /\ peer' = wrote(peer, "main", r)
    /\ UNCHANGED <<registry, pypi>>

Init ==
    /\ config = EmptyConfig
    /\ config_file = EmptyFile
    /\ site_packages = {}
    /\ registry \in DOMAIN Registries
    /\ pypi = [k \in Keys |-> 1]
    /\ crashed = FALSE
    /\ steps = 0
    /\ last = started
    /\ peer = NoPeer

\* moppi add <package> [--optional=<group>]
Add(package, optional, fail) ==
    /\ ~crashed
    /\ finish("add", package, optional, add(machine, package, optional, fail))

\* moppi update <package>
Update(package, order, fail) ==
    /\ ~crashed
    /\ finish("update", package, NoGroup, update(machine, package, order, fail))

\* moppi remove <package>
Remove(package, order) ==
    /\ ~crashed
    /\ finish("remove", package, NoGroup, remove(machine, package, order))

\* moppi apply [--optional=<group>]
Apply(optional, order, fail) ==
    /\ ~crashed
    /\ finish("apply", "", optional, apply(machine, optional, order, fail))

\* a new release of a package appears on PyPI
Publish(k) ==
    /\ k \in Released
    /\ pypi[k] < MaxVersion
    /\ steps < MaxSteps
    /\ steps' = steps + 1
    /\ pypi' = [pypi EXCEPT ![k] = @ + 1]
    /\ UNCHANGED <<config, config_file, site_packages, registry, crashed, last, peer>>

\* a new process starts: Moppi._parse_args builds the config from the file
Start ==
    /\ config' = load(config_file)
    /\ crashed' = FALSE
    /\ last' = started
    /\ steps < MaxSteps
    /\ steps' = steps + 1
    /\ UNCHANGED <<config_file, site_packages, registry, pypi, peer>>

Next ==
    \/ \E package \in TypedNames, optional \in Groups \cup {NoGroup}, fail \in Failures :
          Add(package, optional, fail)
    \/ \E package \in TypedNames, order \in Orders, fail \in Failures :
          Update(package, order, fail)
    \/ \E package \in TypedNames, order \in Orders : Remove(package, order)
    \/ \E optional \in Groups \cup {NoGroup}, order \in Orders, fail \in Failures :
          Apply(optional, order, fail)
    \/ \E k \in Keys : Publish(k)
    \/ Start

Spec == Init /\ [][Next]_vars

----------------------------------------------------------------------------
\* The process started on a pyproject.toml that is there already: a lock
\* file written by hand or by another run, whose indirect entries name any
\* number of requirers.

\* a node as a lock-file entry describes it
entry_node(k, parents) ==
    [Dependency(Canonical[k]) EXCEPT
        !.version = 1,
        !.needed_by = {<<Canonical[p], equal, 1>> : p \in parents}]

\* the graphs the lock files describe: a and b direct, optional or absent,
\* c and d absent or indirect with one or more requirers among the others
LockGraphs ==
    LET Roles == [{"a", "b"} -> {"direct", "optional", "absent"}]
        Parents == UNION {[I -> (SUBSET Keys) \ {{}}] : I \in SUBSET {"c", "d"}}
        present(role, nb) == {k \in {"a", "b"} : role[k] # "absent"} \cup DOMAIN nb
    IN  {[dependencies |-> {entry_node(k, {}) : k \in {x \in {"a", "b"} : c[1][x] = "direct"}},
          optional_dependencies |->
             [g \in Groups |->
                {entry_node(k, {}) : k \in {x \in {"a", "b"} : c[1][x] = "optional"}}],
          indirect_dependencies |-> {entry_node(k, c[2][k]) : k \in DOMAIN c[2]}]
         : c \in {p \in Roles \X Parents :
                    \A k \in DOMAIN p[2] : p[2][k] \subseteq present(p[1], p[2]) \ {k}}}

InitLoaded ==
    /\ config_file \in {save(g) : g \in LockGraphs}
    /\ config = load(config_file)
    /\ site_packages = {dep.name : dep \in nodes(config)}
    /\ registry \in DOMAIN Registries
    /\ pypi = [k \in Keys |-> 1]
    /\ crashed = FALSE
    /\ steps = 0
    /\ last = started
    /\ peer = NoPeer

NextLoaded ==
    \/ \E package \in TypedNames, order \in Orders : Remove(package, order)
    \/ Start

SpecLoaded == InitLoaded /\ [][NextLoaded]_vars

\* Two processes on one pyproject.toml.  Each builds its own config from the
\* file when it starts (Moppi._parse_args line 164, Config.__init__ lines
\* 25-28) and touches the file again only in save, which rewrites it from
\* the process's own data; neither takes a lock.  A command is one step: the
\* file is read before it and written at its end.

\* what the second process works on: its own config, the shared file and
\* install directory
peer_machine == [config |-> peer.config, file |-> config_file, files |-> site_packages]

\* the second process's command ends
peer_finish(op, package, optional, r) ==
    /\ peer.pc = "loaded"
    /\ peer' = [wrote(peer, "peer", r) EXCEPT
                   !.pc = "done", !.config = r.config,
                   !.last = command(op, package, optional, r)]
    /\ config_file' = r.file
    /\ site_packages' = r.files
    /\ UNCHANGED <<config, registry, pypi, crashed, last, steps>>

\* moppi add <package> [--optional=<group>] in the second process
PeerAdd(package, optional, fail) ==
    peer_finish("add", package, optional, add(peer_machine, package, optional, fail))

\* moppi remove <package> in the second process
PeerRemove(package, order) ==
    peer_finish("remove", package, NoGroup, remove(peer_machine, package, order))

\* both processes have started on the file an earlier moppi add left, or on
\* a project without one
InitConcurrent ==
    /\ registry \in DOMAIN Registries
    /\ pypi = [k \in Keys |-> 1]
    /\ \E a \in {outcome(EmptyConfig, EmptyFile, {}, "ok", <<>>, <<>>, 0)}
                 \cup {add([config |-> EmptyConfig, file |-> EmptyFile, files |-> {}],
                           package, NoGroup, NoFail) : package \in TypedNames} :
          /\ config_file = a.file
          /\ site_packages = a.files
    /\ config = load(config_file)
    /\ peer = [pc |-> "loaded", config |-> load(config_file), last |-> started,
               saver |-> "none"]
    /\ crashed = FALSE
    /\ steps = 0
    /\ last = started

\* each process runs one command
NextConcurrent ==
    \/ \E package \in TypedNames, optional \in Groups \cup {NoGroup}, fail \in Failures :
          last = started /\ Add(package, optional, fail)
    \/ \E package \in TypedNames, order \in Orders :
          last = started /\ Remove(package, order)
    \/ \E package \in TypedNames, optional \in Groups \cup {NoGroup}, fail \in Failures :
          PeerAdd(package, optional, fail)
    \/ \E package \in TypedNames, order \in Orders : PeerRemove(package, order)

SpecConcurrent == InitConcurrent /\ [][NextConcurrent]_vars

----------------------------------------------------------------------------
\* Vocabulary of the properties

\* the machine a command leaves behind
after(r) == [config |-> r.config, file |-> r.file, files |-> r.files]

EmptyMachine == [config |-> EmptyConfig, file |-> EmptyFile, files |-> {}]

\* the nodes stored under a lower-cased name
named(cfg, k) == {dep \in nodes(cfg) : Lower(dep.name) = k}

\* the lower-cased names a node is needed by
needed_names(dep) == {Lower(parent[1]) : parent \in dep.needed_by}

roots(cfg) == cfg.dependencies \cup (UNION {cfg.optional_dependencies[g] : g \in Groups})

root_names(cfg) == {Lower(dep.name) : dep \in roots(cfg)}

indirect_names(cfg) == {Lower(dep.name) : dep \in cfg.indirect_dependencies}

\* the last command was `op` on the typed name `package` and returned normally
did(op, package) == last.op = op /\ last.package = package /\ last.result = "ok"

----------------------------------------------------------------------------
\* the machine after add(A) then add(B) from the empty graph
C1_after_add_A_add_B ==
    after(add(after(add(EmptyMachine, "A", NoGroup, NoFail)), "B", NoGroup, NoFail))

\* C1: diamond accumulation.  With A requiring C and B requiring C, after
\* add(A) then add(B) from the empty graph there is exactly one node for C
\* and it is needed by both A and B.
C1_DiamondAccumulation ==
    (/\ registry = 1
     /\ steps = 2
     /\ did("add", "B")
     /\ config = C1_after_add_A_add_B.config)
    => /\ Cardinality(named(config, "c")) = 1
       /\ \A dep \in named(config, "c") : needed_names(dep) = {"a", "b"}

\* the machine after add(A); add(B); remove(A)
C2_after_remove_A(order) == after(remove(C1_after_add_A_add_B, "A", order))

\* C2: cascade correctness.  With A and B each requiring C, after add(A);
\* add(B); remove(A) the node C is still in the graph, needed by B alone, and
\* its artifact is kept; a further remove(B) takes C out of the graph.
C2_CascadeKeepsShared ==
    \A order \in Orders :
        (/\ registry = 1
         /\ steps = 3
         /\ did("remove", "A")
         /\ config = C2_after_remove_A(order).config)
        => /\ \E dep \in named(config, "c") : needed_names(dep) = {"b"}
           /\ "C" \in site_packages
           /\ named(remove(machine, "B", order).config, "c") = {}

\* C3: name uniqueness.  In every state the direct, optional and indirect
\* collections together hold at most one node per lower-cased name.
C3_NameUnique == \A k \in Keys : Cardinality(named(config, k)) <= 1

\* the lower-cased names of the entries of the saved file
C4_file_names ==
    {Lower(s[1]) : s \in config_file.dependencies
                        \cup UNION {config_file.optional_dependencies[g] : g \in Groups}}
        \cup {Lower(e.head[1]) : e \in config_file.indirect_dependencies}

\* C4: no dangling references.  After every add, update or remove that
\* returned normally, every name in a needed_by set, in memory and in the
\* saved file, is the name of a node of the graph.
C4_NoDanglingReference ==
    (last.op \in {"add", "update", "remove"} /\ last.result = "ok")
    => /\ \A dep \in nodes(config) : needed_names(dep) \subseteq all(config)
       /\ \A e \in config_file.indirect_dependencies \cup config_file.dependency_lock :
             {Lower(parent[1]) : parent \in e.needed_by} \subseteq C4_file_names

\* a root was removed and saved while other roots keep their indirect nodes
C4_Witness ==
    /\ steps = 3
    /\ last.op = "remove" /\ last.result = "ok"
    /\ Lower(last.package) \notin all(config)
    /\ \E dep \in config.indirect_dependencies : dep.needed_by # {}
    /\ config_file.indirect_dependencies # {}
    /\ config_file = save(config)

\* C5: remove is restricted to roots.  remove(X) of a name present only as
\* an indirect dependency reports "not installed" and changes nothing: no
\* node, no needed_by set, no artifact, and the file is not written.
C5_RemoveOnlyRoots ==
    \A package \in TypedNames, order \in Orders :
        (/\ ~crashed
         /\ Lower(package) \in indirect_names(config) \ root_names(config))
        => LET r == remove(machine, package, order) IN
           /\ r.result = "notinstalled"
           /\ r.config = config
           /\ r.files = site_packages
           /\ r.writes = 0

\* the direct, optional and indirect sections of a saved file
sections(file) ==
    [dependencies |-> file.dependencies,
     optional_dependencies |-> file.optional_dependencies,
     indirect_dependencies |-> file.indirect_dependencies]

\* C6: add followed by remove is the identity.  For a name X not in the
\* graph, when add(X) succeeds, remove(X) brings the graph and the saved
\* direct, optional and indirect sections back to what they were before the
\* add; from the empty graph the file then holds an empty direct list and
\* no tool.moppi entry.
C6_AddRemoveIdentity ==
    \A package \in TypedNames, optional \in Groups \cup {NoGroup}, order \in Orders :
        LET a == add(machine, package, optional, NoFail)
            r == remove(after(a), package, order)
        IN  (~crashed /\ Lower(package) \notin all(config) /\ a.result = "ok")
            => /\ r.result = "ok"
               /\ r.config = config
               /\ config_file.written => sections(r.file) = sections(config_file)
               /\ nodes(config) = {} =>
                    /\ sections(r.file) = sections(EmptyFile)
                    /\ r.file.dependency_lock = {}

\* an add that brought indirect nodes was undone by the remove that followed
C6_Witness ==
    /\ steps = 3
    /\ last.op = "remove" /\ last.result = "ok"
    /\ nodes(config) # {}
    /\ \E optional \in Groups \cup {NoGroup}, order \in Orders :
          LET a == add(machine, last.package, optional, NoFail) IN
          /\ a.result = "ok"
          /\ Cardinality(nodes(a.config)) >= Cardinality(nodes(config)) + 2
          /\ remove(after(a), last.package, order).config = config

\* C7: idempotent add.  add(X) of a name already in the graph, in any letter
\* case and whatever collection holds it, fetches nothing, changes no node,
\* does not save and reports "already installed".
C7_AddIdempotent ==
    \A package \in TypedNames, optional \in Groups \cup {NoGroup}, fail \in Failures :
        (~crashed /\ Lower(package) \in all(config))
        => LET r == add(machine, package, optional, fail) IN
           /\ r.result = "already"
           /\ r.log = <<>>
           /\ r.writes = 0
           /\ after(r) = machine

\* add of an installed name typed in another letter case than the stored one
C7_Witness ==
    /\ last.op = "add" /\ last.result = "already"
    /\ \E dep \in nodes(config) :
          Lower(dep.name) = Lower(last.package) /\ dep.name # last.package
    /\ \E dep \in config.indirect_dependencies : TRUE

\* C8: update(X) is remove(X) followed by add(X).  For every name in the
\* graph, direct, optional or indirect, update leaves the graph and the file
\* that remove then add leave from the same state and registry.
C8_UpdateIsRemoveAdd ==
    \A package \in TypedNames, order \in Orders, fail \in Failures :
        (~crashed /\ Lower(package) \in all(config))
        => LET u == update(machine, package, order, fail)
               r == remove(machine, package, order)
               a == add(after(r), package, NoGroup, fail)
           IN  u.config = a.config /\ u.file = a.file

\* C9: update with an unchanged registry changes nothing.  When add(X) has
\* installed X as a direct root, update(X) leaves the graph and the saved
\* file exactly as the add left them.
C9_UpdateUnchangedRegistry ==
    \A package \in TypedNames, order \in Orders :
        LET a == add(machine, package, NoGroup, NoFail)
            u == update(after(a), package, order, NoFail)
        IN  (~crashed /\ Lower(package) \notin all(config) /\ a.result = "ok")
            => /\ u.result = "ok"
               /\ u.config = a.config
               /\ u.file = a.file

\* a direct root with its indirect dependencies was updated right after its add
C9_Witness ==
    /\ steps = 2
    /\ last.op = "update" /\ last.result = "ok"
    /\ LET a == add(EmptyMachine, last.package, NoGroup, NoFail) IN
       /\ a.result = "ok"
       /\ a.config.indirect_dependencies # {}
       /\ config = a.config
       /\ config_file = a.file

\* C10: "not installed" changes nothing.  remove(X) and update(X) of a name
\* absent from the graph change no node and no needed_by set, delete no
\* artifact, fetch nothing and do not write the file.
C10_NotInstalledNoMutation ==
    \A package \in TypedNames, order \in Orders, fail \in Failures :
        (~crashed /\ Lower(package) \notin all(config))
        => LET r == remove(machine, package, order)
               u == update(machine, package, order, fail)
           IN  /\ r.result = "notinstalled" /\ u.result = "notinstalled"
               /\ after(r) = machine /\ after(u) = machine
               /\ r.log = <<>> /\ u.log = <<>>
               /\ r.removed = <<>> /\ u.removed = <<>>
               /\ r.writes = 0 /\ u.writes = 0

\* a remove or update of an absent name ran on a graph that holds other nodes
C10_Witness ==
    /\ last.op \in {"remove", "update"} /\ last.result = "notinstalled"
    /\ Lower(last.package) \notin all(config)
    /\ config.indirect_dependencies # {}
    /\ site_packages # {}

\* the nodes of a config without their provenance: name, version, needed_by
\* edges, and the collection or optional group each node is stored in
structure(cfg) ==
    LET bare(S) == {[name |-> dep.name, version |-> dep.version,
                     needed_by |-> dep.needed_by] : dep \in S}
    IN  [dependencies |-> bare(cfg.dependencies),
         optional_dependencies |-> [g \in Groups |-> bare(cfg.optional_dependencies[g])],
         indirect_dependencies |-> bare(cfg.indirect_dependencies)]

\* the data-model invariants: one node per lower-cased name, and no node of
\* an optional group or of the direct list with a non-empty needed_by
data_model(cfg) ==
    /\ \A k \in Keys : Cardinality(named(cfg, k)) <= 1
    /\ \A dep \in roots(cfg) : dep.needed_by = {}

\* C11: lock-file round trip.  For every graph with unique names and no
\* optional node that is needed by another, the config loaded from its saved
\* file has the same nodes (names and versions), the same needed_by edges
\* and the same optional-group membership.
C11_LockRoundTrip ==
    data_model(config) => structure(load(save(config))) = structure(config)

\* a graph with a direct, an optional and an indirect node was saved by a
\* command and read back by the next process
C11_Witness ==
    /\ last.op = "start"
    /\ config_file.written
    /\ config = load(config_file)
    /\ data_model(config)
    /\ config.dependencies # {}
    /\ \E g \in Groups : config.optional_dependencies[g] # {}
    /\ \E dep \in config.indirect_dependencies : dep.needed_by # {}
    /\ structure(load(save(config))) = structure(config)

\* C12: save is idempotent across a reload.  For a graph the resolver
\* produced, whose nodes carry the registry's content hashes, saving the
\* config loaded from the saved file writes the same direct, optional,
\* indirect and dependency-lock entries, content hashes included.
C12_SaveReloadIdempotent ==
    (last.op \in {"add", "update"} /\ last.result = "ok" /\ data_model(config))
    => save(load(save(config))) = save(config)

\* the lower-cased names a package requires through entries without a marker
requires(k) ==
    {Lower(req.name) : req \in {r \in Range(Registries[registry][k]) : ~r.marker}}

RECURSIVE closure(_, _)
\* the names reached from S in at most n steps of requires
closure(S, n) ==
    IF n = 0 THEN S ELSE closure(S \cup UNION {requires(k) : k \in S}, n - 1)

\* the packages reachable from x, x itself left out
reachable(x) == closure(requires(x), Cardinality(Keys)) \ {x}

\* C13: transitive add result.  From the empty graph a successful add(X)
\* leaves X as the only direct node, with empty needed_by, and exactly the
\* packages reachable from X through entries without a marker, each stored
\* once as an indirect node with non-empty needed_by; the saved file has one
\* direct entry for X, one composite entry per reachable package and one
\* dependency-lock entry, with the registry's hash, per node.
C13_TransitiveAdd ==
    \A package \in TypedNames :
        LET x == Lower(package)
            a == add(machine, package, NoGroup, NoFail)
            hashed(k) == <<k, pypi[k]>>
        IN  (~crashed /\ nodes(config) = {} /\ a.result = "ok")
            => /\ a.config.dependencies = {[Dependency(Canonical[x]) EXCEPT
                                               !.version = pypi[x], !.sha256 = hashed(x)]}
               /\ \A g \in Groups : a.config.optional_dependencies[g] = {}
               /\ indirect_names(a.config) = reachable(x)
               /\ \A k \in reachable(x) :
                     /\ Cardinality(named(a.config, k)) = 1
                     /\ \A dep \in named(a.config, k) :
                           dep.needed_by # {} /\ dep.version = pypi[k]
               /\ a.file.written
               /\ a.file.dependencies = {<<Canonical[x], equal, pypi[x]>>}
               /\ {Lower(e.head[1]) : e \in a.file.indirect_dependencies} = reachable(x)
               /\ Cardinality(a.file.indirect_dependencies) = Cardinality(reachable(x))
               /\ {<<Lower(e.head[1]), e.sha256>> : e \in a.file.dependency_lock}
                     = {<<k, hashed(k)>> : k \in reachable(x) \cup {x}}
               /\ Cardinality(a.file.dependency_lock) = Cardinality(reachable(x)) + 1

\* an add on the empty graph brought a chain of two indirect nodes
C13_Witness ==
    /\ last.op = "add" /\ last.result = "ok" /\ last.optional = NoGroup
    /\ LET a == add(EmptyMachine, last.package, NoGroup, NoFail) IN
       /\ config = a.config
       /\ config_file = a.file
    /\ Cardinality(reachable(Lower(last.package))) >= 2
    /\ Cardinality(config.indirect_dependencies) >= 2

\* C14: case-insensitive keys.  After add(X), remove of the same name in
\* any letter case passes the installed check and leaves no node of that
\* lower-cased name in the direct, optional or indirect collections, and add
\* of the name in any letter case reports "already installed".
C14_CaseInsensitive ==
    \A package \in TypedNames, other \in TypedNames,
       optional \in Groups \cup {NoGroup}, order \in Orders :
        LET a == add(machine, package, optional, NoFail)
            r == remove(after(a), other, order)
            b == add(after(a), other, optional, NoFail)
        IN  (/\ ~crashed
             /\ Lower(package) \notin all(config)
             /\ a.result = "ok"
             /\ Lower(other) = Lower(package))
            => /\ r.result = "ok"
               /\ named(r.config, Lower(package)) = {}
               /\ b.result = "already"
               /\ b.config = a.config

\* a package stored under its registry name "A" was removed as "a"
C14_Witness ==
    /\ steps = 2
    /\ last.op = "remove" /\ last.package = "a" /\ last.result = "ok"
    /\ config_file.written
    /\ config = EmptyConfig
    /\ "A" \notin site_packages
    /\ \E order \in Orders :
          config = remove(after(add(EmptyMachine, "A", NoGroup, NoFail)), "a", order).config

\* the packages whose metadata a command fetched, in order
fetched(log) == SelectSeq(log, LAMBDA e : e[1] = "info")

\* the packages whose artifact a command downloaded and extracted
downloaded(log) == {e[2] : e \in {x \in Range(log) : x[1] = "download"}}

\* C15: failure during resolve.  When the metadata fetch or the download of
\* a package P fails during add(X), P is not inserted, the command ends with
\* the failure, the file is not saved, and the nodes inserted before the
\* failure, and only those, stay in the in-memory graph.
C15_FailureNoRollback ==
    \A package \in TypedNames, optional \in Groups \cup {NoGroup},
       fail \in Failures \ {NoFail} :
        LET whole == add(machine, package, optional, NoFail)
            r == add(machine, package, optional, fail)
            P == fail[2]
        IN  (/\ ~crashed
             /\ Lower(package) \notin all(config)
             /\ <<"info", P>> \in Range(whole.log))
            => /\ r.result = "failed"
               /\ P \notin all(r.config)
               /\ r.writes = 0
               /\ r.file = config_file
               /\ nodes(config) \subseteq nodes(r.config)
               /\ nodes(r.config) \subseteq nodes(whole.config)
               /\ all(r.config) \ all(config) = downloaded(r.log)
               /\ \E n \in 0..Len(whole.log) : r.log = SubSeq(whole.log, 1, n)
               /\ (P # Lower(package)) => Lower(package) \in root_names(r.config)

\* an add failed below its root: the root stays in memory, the file does not
\* hold it
C15_Witness ==
    /\ crashed
    /\ last.op = "add" /\ last.result = "failed"
    /\ Lower(last.package) \in root_names(config)
    /\ config.indirect_dependencies # {}
    /\ ~config_file.written

\* packages x and y require each other through entries without a marker
mutual(x, y) == x # y /\ y \in requires(x) /\ x \in requires(y)

\* C16: no cycle guard.  With a registry in which A requires B and B
\* requires A, add(A) on a graph that holds neither never completes: no
\* state is reached in which that add has returned.
C16_CycleNeverCompletes ==
    ~ /\ mutual("a", "b")
      /\ steps = 1
      /\ did("add", "A")

\* C16 as amended: with A requiring B and B requiring A, add(A) on a graph
\* that holds neither completes; each of A and B is fetched once and stored
\* once, A as the added root and B as an indirect node needed by A, because
\* B's requirement of A finds A in the graph already.
C16_CycleCompletes ==
    \A package \in TypedNames, other \in Keys, optional \in Groups \cup {NoGroup} :
        LET x == Lower(package)
            a == add(machine, package, optional, NoFail)
        IN  (/\ ~crashed
             /\ mutual(x, other)
             /\ x \notin all(config) /\ other \notin all(config))
            => /\ a.result = "ok"
               /\ Cardinality(named(a.config, x)) = 1
               /\ Cardinality(named(a.config, other)) = 1
               /\ x \in root_names(a.config)
               /\ \A dep \in named(a.config, other) :
                     dep \in a.config.indirect_dependencies /\ needed_names(dep) = {x}
               /\ Len(SelectSeq(fetched(a.log), LAMBDA e : e[2] = x)) = 1
               /\ Len(SelectSeq(fetched(a.log), LAMBDA e : e[2] = other)) = 1

\* add(A) returned under the registry where A and B require each other
C16_Witness ==
    /\ mutual("a", "b")
    /\ steps = 1
    /\ did("add", "A")
    /\ config = add(EmptyMachine, "A", NoGroup, NoFail).config
    /\ indirect_names(config) = {"b"}

\* the artifact of the package with lower-cased name k is in the install
\* directory
artifact_present(files, k) == \E f \in files : file_key(f) = k

\* the lower-cased names apply considers: every node, or one group's nodes
considered(cfg, optional) ==
    IF optional = NoGroup
    THEN all(cfg)
    ELSE {Lower(dep.name) : dep \in cfg.optional_dependencies[optional]}

\* C17: apply mutates nothing in the graph.  apply() and apply(group) leave
\* the three collections and every needed_by set as they are, do not write
\* the file, fetch no package beyond the considered names, and download an
\* artifact only for a considered name whose artifact is missing on disk.
C17_ApplyFrame ==
    \A optional \in Groups \cup {NoGroup}, order \in Orders, fail \in Failures :
        ~crashed
        => LET r == apply(machine, optional, order, fail) IN
           /\ r.config = config
           /\ r.file = config_file
           /\ r.writes = 0
           /\ {e[2] : e \in Range(r.log)} \subseteq considered(config, optional)
           /\ \A k \in downloaded(r.log) : ~artifact_present(site_packages, k)

\* the packages some node of the graph requires only under a marker
gated(cfg) ==
    {Lower(req.name) : req \in UNION {{r \in Range(Registries[registry][k]) : r.marker}
                                          : k \in all(cfg)}}

\* C18: marker-gated requirements are never resolved.  During any add, an
\* entry holding a ';' marker causes no metadata fetch, no download and no
\* node: every package fetched or inserted is the added one or is reached
\* from it through entries without a marker.
C18_MarkersSkipped ==
    \A package \in TypedNames, optional \in Groups \cup {NoGroup}, fail \in Failures :
        LET x == Lower(package)
            a == add(machine, package, optional, fail)
        IN  (~crashed /\ x \notin all(config))
            => /\ {e[2] : e \in Range(a.log)} \subseteq {x} \cup reachable(x)
               /\ all(a.config) \ all(config) \subseteq {x} \cup reachable(x)
               /\ {file_key(f) : f \in a.files \ site_packages} \subseteq {x} \cup reachable(x)

\* an add resolved a package that names another one under a marker, and the
\* other one is not in the graph
C18_Witness ==
    /\ last.op = "add" /\ last.result = "ok"
    /\ gated(config) \ all(config) # {}
    /\ \A k \in gated(config) \ all(config) : ~artifact_present(site_packages, k)
    /\ config.indirect_dependencies # {}

RECURSIVE cascade(_, _, _)
\* R grown n times by the indirect nodes whose requirers all lie in R
cascade(cfg, R, n) ==
    IF n = 0
    THEN R
    ELSE cascade(cfg,
                 R \cup {Lower(dep.name) : dep \in {d \in cfg.indirect_dependencies :
                                                       needed_names(d) \subseteq R}},
                 n - 1)

\* the least set holding T and every indirect node needed only from the set
removed_set(cfg, T) == cascade(cfg, {T}, Cardinality(Keys))

\* unique names, roots without requirers, indirect nodes with requirers, and
\* every requirer a node of the graph
well_formed(cfg) ==
    /\ data_model(cfg)
    /\ \A dep \in cfg.indirect_dependencies :
          dep.needed_by # {} /\ needed_names(dep) \subseteq all(cfg)

\* C19: cascade removal computes the exact fixed point.  For a well-formed
\* graph and a direct or optional root T, remove(T) takes out exactly the
\* least set R that holds T and every indirect node needed only from R; every
\* other indirect node stays and keeps its needed_by minus R, which is not
\* empty, and every other root stays.
C19_CascadeFixedPoint ==
    \A package \in TypedNames, order \in Orders :
        LET T == Lower(package)
            r == remove(machine, package, order)
            R == removed_set(config, T)
        IN  (~crashed /\ well_formed(config) /\ T \in root_names(config))
            => /\ r.result = "ok"
               /\ Range(r.removed) = R
               /\ all(r.config) = all(config) \ R
               /\ roots(r.config) = {dep \in roots(config) : Lower(dep.name) # T}
               /\ r.config.indirect_dependencies =
                     {[dep EXCEPT !.needed_by = {p \in @ : Lower(p[1]) \notin R}]
                         : dep \in {d \in config.indirect_dependencies :
                                       Lower(d.name) \notin R}}
               /\ \A dep \in r.config.indirect_dependencies : dep.needed_by # {}

\* remove(A) ran on a loaded graph in which one node was needed by A alone,
\* through another indirect node, and one by A, B and that node: the first
\* two are gone with A, the last is left needed by B
C19_Witness ==
    /\ steps = 1
    /\ did("remove", "A")
    /\ last.removed = {"a", "c"}
    /\ root_names(config) = {"b"}
    /\ indirect_names(config) = {"d"}
    /\ \A dep \in config.indirect_dependencies : needed_names(dep) = {"b"}
    /\ site_packages = {"B", "d"}
    /\ \E g \in LockGraphs, order \in Orders :
          /\ \E dep \in g.indirect_dependencies :
                Lower(dep.name) = "d" /\ needed_names(dep) = {"a", "b", "c"}
          /\ \E dep \in g.indirect_dependencies :
                Lower(dep.name) = "c" /\ needed_names(dep) = {"a"}
          /\ config = remove([config |-> load(save(g)), file |-> save(g),
                              files |-> {dep.name : dep \in nodes(g)}],
                             "A", order).config

\* the lower-cased names stored in some optional group
optional_names(cfg) ==
    {Lower(dep.name) : dep \in UNION {cfg.optional_dependencies[g] : g \in Groups}}

\* C20: category invariant.  After every completed add, update or remove,
\* every node of the indirect collection has a non-empty needed_by, every
\* node of the direct list and of an optional group has an empty one, and no
\* name is stored both in an optional group and in the indirect collection;
\* the saved sections say the same.
C20_CategoryInvariant ==
    (last.op \in {"add", "update", "remove"} /\ last.result # "failed")
    => /\ \A dep \in config.indirect_dependencies : dep.needed_by # {}
       /\ \A dep \in roots(config) : dep.needed_by = {}
       /\ optional_names(config) \cap indirect_names(config) = {}
       /\ config_file.written =>
             /\ \A e \in config_file.indirect_dependencies : e.needed_by # {}
             /\ \A e \in config_file.dependency_lock :
                   (e.needed_by # {}) <=>
                      (\E i \in config_file.indirect_dependencies :
                          i.head = e.head /\ i.needed_by = e.needed_by)

\* a root was removed with the indirect node it alone needed, while an
\* optional root and the indirect node it needs stay
C20_Witness ==
    /\ steps = 3
    /\ last.op = "remove" /\ last.result = "ok"
    /\ Lower(last.package) \notin all(config)
    /\ Cardinality(last.removed) >= 2
    /\ optional_names(config) # {}
    /\ config.indirect_dependencies # {}
    /\ config_file = save(config)

\* how many times the log holds the entry e
times(log, e) == Len(SelectSeq(log, LAMBDA x : x = e))

resolution(dep) ==
    [name |-> dep.name, version |-> dep.version, operator |-> dep.operator,
     sha256 |-> dep.sha256]

\* the resolutions held by each collection
resolved(cfg) ==
    [dependencies |-> {resolution(dep) : dep \in cfg.dependencies},
     optional_dependencies |->
        [g \in Groups |-> {resolution(dep) : dep \in cfg.optional_dependencies[g]}],
     indirect_dependencies |-> {resolution(dep) : dep \in cfg.indirect_dependencies}]

\* C22: first resolution wins.  An add, successful or failed, leaves every
\* node that was in the graph before it in its collection with the same
\* version, operator and content hash, whatever constraint the added
\* package or its requirements declare on it.
C22_FirstResolutionWins ==
    \A package \in TypedNames, optional \in Groups \cup {NoGroup}, fail \in Failures :
        ~crashed
        => LET a == add(machine, package, optional, fail)
               before == resolved(config)
               later == resolved(a.config)
           IN  /\ before.dependencies \subseteq later.dependencies
               /\ \A g \in Groups :
                     before.optional_dependencies[g] \subseteq later.optional_dependencies[g]
               /\ before.indirect_dependencies \subseteq later.indirect_dependencies
               /\ \A k \in all(config) :
                     {resolution(dep) : dep \in named(a.config, k)}
                        = {resolution(dep) : dep \in named(config, k)}

\* B was added to a graph that held C already, resolved for another
\* package; B requires C under a constraint the stored version does not
\* meet, and C is as it was resolved
C22_Witness ==
    /\ steps = 2
    /\ did("add", "B")
    /\ "c" \in requires("b")
    /\ "b" \in root_names(config)
    /\ named(config, "c") # {}
    /\ \A dep \in named(config, "c") :
          /\ "b" \notin needed_names(dep)
          /\ dep.version = pypi["c"]
          /\ dep.sha256 = <<"c", pypi["c"]>>
          /\ \E req \in Range(Registries[registry]["b"]) :
                Lower(req.name) = "c" /\ req.version # dep.version

\* the lower-cased names a package requires without a marker, in the order
\* the registry declares them
declared(k) ==
    LET entries == SelectSeq(Registries[registry][k], LAMBDA r : ~r.marker)
    IN  [i \in DOMAIN entries |-> Lower(entries[i].name)]

RECURSIVE preorder(_, _, _)
RECURSIVE preorder_each(_, _, _, _)
\* depth-first pre-order from k, reached from `parent`: v holds the names
\* seen so far and the visits so far, each a pair of a name and the name it
\* was reached from
preorder(v, k, parent) ==
    IF k \in v.seen
    THEN v
    ELSE preorder_each([seen |-> v.seen \cup {k},
                        visits |-> Append(v.visits, <<k, parent>>)],
                       k, declared(k), 1)

preorder_each(v, k, names, i) ==
    IF i > Len(names)
    THEN v
    ELSE preorder_each(preorder(v, names[i], k), k, names, i + 1)

\* C23: resolution order.  During add(X) the packages are fetched,
\* downloaded and inserted in depth-first pre-order along the declared order
\* of each requires_dist list: a package's fetch and download come before
\* any of its requirements, the whole subtree of one requirement before the
\* next requirement, and each inserted node is needed by the package it was
\* first reached from.
C23_DepthFirstOrder ==
    \A package \in TypedNames, optional \in Groups \cup {NoGroup} :
        LET x == Lower(package)
            a == add(machine, package, optional, NoFail)
            visits == preorder([seen |-> all(config), visits |-> <<>>], x, "").visits
        IN  (~crashed /\ x \notin all(config))
            => /\ a.result = "ok"
               /\ Len(a.log) = 2 * Len(visits)
               /\ \A i \in DOMAIN visits :
                     /\ a.log[2 * i - 1] = <<"info", visits[i][1]>>
                     /\ a.log[2 * i] = <<"download", visits[i][1]>>
                     /\ \A dep \in named(a.config, visits[i][1]) :
                           needed_names(dep) = {visits[i][2]} \ {""}

\* A was added where it requires B and then C, and both require d: d is in
\* the graph as B's requirement
C23_Witness ==
    /\ steps = 1
    /\ did("add", "A")
    /\ declared("a") = <<"b", "c">>
    /\ "d" \in requires("b") /\ "d" \in requires("c")
    /\ \A k \in {"b", "c", "d"} : Cardinality(named(config, k)) = 1
    /\ \A dep \in named(config, "d") : needed_names(dep) = {"b"}

\* C24: save at the end of every mutating operation.  Whenever add, update
\* or remove has returned normally after changing the graph, the file was
\* written after the last change and holds the in-memory graph; and no add,
\* update or remove returns normally with an in-memory graph that differs
\* from the direct, optional and indirect entries of the file.
C24_SavedAtReturn ==
    /\ (last.op \in {"add", "update", "remove"} /\ last.result = "ok")
       => config_file.written /\ config_file = save(config)
    /\ ~crashed =>
          \A package \in TypedNames, order \in Orders :
              \A r \in {add(machine, package, NoGroup, NoFail),
                        update(machine, package, order, NoFail),
                        remove(machine, package, order)} :
                  (r.result # "failed" /\ r.file.written)
                  => sections(r.file) = sections(save(r.config))

\* C25: the removal list drives artifact deletion.  For a remove(T) that goes
\* through, the names handed to the deletion of artifacts are exactly T and
\* the names of the indirect nodes the cascade took out of the graph; no
\* artifact is deleted for a name whose node remains in the graph, and every
\* node taken out of the graph has its name in the list.
C25_ListDrivesDeletion ==
    ~crashed =>
        \A T \in TypedNames, order \in Orders :
            LET r == remove(machine, T, order)
                gone == indirect_names(config) \ indirect_names(r.config)
            IN  r.result = "ok"
                => /\ Range(r.removed) = {Lower(T)} \cup gone
                   /\ r.files = delete_files(site_packages, r.removed)
                   /\ \A f \in site_packages \ r.files : file_key(f) \notin all(r.config)
                   /\ all(config) \ all(r.config) \subseteq Range(r.removed)

\* the names a saved file lists as direct, optional or indirect
listed(file) ==
    {Lower(e[1]) : e \in file.dependencies
                     \cup UNION {file.optional_dependencies[g] : g \in Groups}}
    \cup {Lower(e.head[1]) : e \in file.indirect_dependencies}

overwritten_by(winner, loser) ==
    /\ config_file = save(winner)
    /\ listed(config_file) \cap (all(loser) \ all(winner)) = {}
    /\ all(winner) \ all(loser) \subseteq listed(config_file)

\* what a command returns and stores does not depend on what the file holds
\* when it runs
unaware(m) ==
    \A package \in TypedNames, order \in Orders :
        LET a == add(m, package, NoGroup, NoFail)
            a0 == add([m EXCEPT !.file = EmptyFile], package, NoGroup, NoFail)
            r == remove(m, package, order)
            r0 == remove([m EXCEPT !.file = EmptyFile], package, order)
        IN  /\ a.result = a0.result /\ a.config = a0.config
            /\ r.result = r0.result /\ r.config = r0.config
            /\ a.writes > 0 => a.file = a0.file
            /\ r.writes > 0 => r.file = r0.file

\* C26: concurrent invocations lose updates silently.  When two processes
\* have each loaded the same file and run a command on their own graph, the
\* file is exactly what the process that saved last wrote: the other
\* process's change is absent from it, and no command's result or graph
\* depends on what the other process has written in the meantime.
C26_LastWriterWins ==
    /\ peer.saver = "peer" => overwritten_by(peer.config, config)
    /\ peer.saver = "main" => overwritten_by(config, peer.config)
    /\ peer.pc = "loaded" => unaware(peer_machine)
    /\ (peer.pc # "none" /\ last = started) => unaware(machine)
    /\ {last.result, peer.last.result} \subseteq {"ok", "already", "notinstalled", "failed"}

\* both processes added a package of their own and returned normally; the
\* file is the second process's, and the first one's package, installed and
\* in its graph, is not listed
C26_Witness ==
    /\ peer.pc = "done" /\ peer.saver = "peer"
    /\ last.op = "add" /\ last.result = "ok"
    /\ peer.last.op = "add" /\ peer.last.result = "ok"
    /\ Lower(last.package) # Lower(peer.last.package)
    /\ Lower(last.package) \in all(config)
    /\ artifact_present(site_packages, Lower(last.package))
    /\ Lower(last.package) \notin listed(config_file)
    /\ Lower(peer.last.package) \in listed(config_file)

\* C28: the list of removed names holds each name once.  The list built by a
\* remove(T) that goes through, the target followed by the result of the
\* recursive cleanup, has no name twice, whatever the shape of the needed_by
\* graph, chains of indirect nodes included.
C28_RemovedOnce ==
    ~crashed =>
        \A T \in TypedNames, order \in Orders :
            LET r == remove(machine, T, order) IN
            r.result = "ok"
            => \A i, j \in DOMAIN r.removed : r.removed[i] = r.removed[j] => i = j

====
